---- MODULE Spec2Model ----
(***************************************************************************)
(* Model of the Vue-to-Markdown conversion script (src/unnamed/part_007):  *)
(* the converter convertVueToMarkdown, a chain of String.prototype.replace *)
(* calls, and the batch loop vueFiles.forEach that reads each configured   *)
(* source file, converts it and writes the .md file.                       *)
(*                                                                         *)
(* A JavaScript string is modelled as the sequence of its characters, each *)
(* character a one-character string; Chars("abc") is <<"a", "b", "c">>.    *)
(***************************************************************************)
EXTENDS Integers, Sequences, FiniteSets, TLC

VARIABLES
    pc,          \* "setup", "loop", "done" or "crashed" (ended by an uncaught exception)
    index,       \* the position of forEach in vueFiles
    source,      \* SOURCE_DIR: file name -> NoFile or File(text)
    dest,        \* DEST_DIR: file name -> NoFile or File(text)
    destDir,     \* DEST_DIR itself: "absent", "writable" or "readonly"
    log,         \* the lines written to the console, in order
    writes,      \* the paths fs.writeFileSync has written, in order
    callContent, \* the content convertVueToMarkdown is called with
    callName,    \* the file name convertVueToMarkdown is called with
    markdown,    \* what convertVueToMarkdown returned
    numbered,    \* how many <li> of ordered lists the process has numbered so far
    earlier      \* an earlier call of convertVueToMarkdown: its arguments and its result

Chars(str) == [i \in 1..Len(str) |-> SubSeq(str, i, i)]

RECURSIVE Flatten(_)
Flatten(ss) == IF ss = <<>> THEN <<>> ELSE Head(ss) \o Flatten(Tail(ss))

Range(f) == {f[i] : i \in DOMAIN f}

(***************************************************************************)
(* Character classes of the regular expressions.  A class is a set of      *)
(* characters, possibly negated.                                           *)
(***************************************************************************)
In(set) == [neg |-> FALSE, set |-> set]
NotIn(set) == [neg |-> TRUE, set |-> set]
Member(c, cls) == (c \in cls.set) # cls.neg

LowerCase == Chars("abcdefghijklmnopqrstuvwxyz")
UpperCase == Chars("ABCDEFGHIJKLMNOPQRSTUVWXYZ")
Digits == Chars("0123456789")
\* \w
WordChars == Range(LowerCase) \cup Range(UpperCase) \cup Range(Digits) \cup {"_"}
\* \s (of the characters the model draws: space, tab, line feed, carriage return)
SpaceChars == {" ", "\t", "\n", "\r"}
\* [\s\S], and . under the s flag
AnyChar == NotIn({})
\* . without the s flag
NotNewline == NotIn({"\n", "\r"})
IsWord(c) == c \in WordChars
IsSpace(c) == c \in SpaceChars

(***************************************************************************)
(* Regular expressions.  Every pattern of the script is a concatenation of *)
(* items: a literal, one character of a class, a repetition of a class     *)
(* (greedy or lazy, at least min times, possibly a capture group), the     *)
(* anchors ^ and $ under the m flag, \b, and a negative lookahead (?!c).   *)
(***************************************************************************)
Lit(str) == [t |-> "lit", s |-> Chars(str), cls |-> AnyChar, min |-> 0, greedy |-> TRUE, cap |-> 0]
One(cls) == [t |-> "one", s |-> <<>>, cls |-> cls, min |-> 1, greedy |-> TRUE, cap |-> 0]
Rep(cls, min, greedy, cap) == [t |-> "rep", s |-> <<>>, cls |-> cls, min |-> min, greedy |-> greedy, cap |-> cap]
Bol == [t |-> "bol", s |-> <<>>, cls |-> AnyChar, min |-> 0, greedy |-> TRUE, cap |-> 0]
Eol == [t |-> "eol", s |-> <<>>, cls |-> AnyChar, min |-> 0, greedy |-> TRUE, cap |-> 0]
WordBoundary == [t |-> "wb", s |-> <<>>, cls |-> AnyChar, min |-> 0, greedy |-> TRUE, cap |-> 0]
NotAhead(cls) == [t |-> "nla", s |-> <<>>, cls |-> cls, min |-> 0, greedy |-> TRUE, cap |-> 0]
\* x* , x*? , x+ and the capture groups (x*) , (x*?)
Star(cls) == Rep(cls, 0, TRUE, 0)
Plus(cls) == Rep(cls, 1, TRUE, 0)
Lazy(cls) == Rep(cls, 0, FALSE, 0)
Group(n, cls) == Rep(cls, 0, TRUE, n)
LazyGroup(n, cls) == Rep(cls, 0, FALSE, n)

NoMatch == [ok |-> FALSE, start |-> 0, end |-> 0, g |-> <<>>]

HasPrefixAt(s, p, lit) ==
    /\ p + Len(lit) - 1 <= Len(s)
    /\ \A i \in 1..Len(lit) : s[p + i - 1] = lit[i]

\* The number of characters of cls that s holds from position p on.
RECURSIVE RunLength(_, _, _)
RunLength(s, p, cls) ==
    IF p <= Len(s) /\ Member(s[p], cls) THEN 1 + RunLength(s, p + 1, cls) ELSE 0

IsLineBreak(c) == c \in {"\n", "\r"}

(***************************************************************************)
(* The backtracking matcher: items k.. of re against s from position p,    *)
(* the first match in the engine's priority order (a greedy repetition     *)
(* tries the longest run first, a lazy one the shortest).  g holds the     *)
(* capture groups.                                                         *)
(***************************************************************************)
RECURSIVE MatchItems(_, _, _, _, _)
RECURSIVE TryRep(_, _, _, _, _, _, _)
MatchItems(re, k, s, p, g) ==
    IF k > Len(re) THEN [ok |-> TRUE, start |-> 0, end |-> p, g |-> g]
    ELSE LET it == re[k] IN
         CASE it.t = "lit" ->
                IF HasPrefixAt(s, p, it.s) THEN MatchItems(re, k + 1, s, p + Len(it.s), g)
                ELSE NoMatch
           [] it.t = "one" ->
                IF p <= Len(s) /\ Member(s[p], it.cls) THEN MatchItems(re, k + 1, s, p + 1, g)
                ELSE NoMatch
           [] it.t = "bol" ->
                IF p = 1 \/ IsLineBreak(s[p - 1]) THEN MatchItems(re, k + 1, s, p, g)
                ELSE NoMatch
           [] it.t = "eol" ->
                IF p = Len(s) + 1 \/ IsLineBreak(s[p]) THEN MatchItems(re, k + 1, s, p, g)
                ELSE NoMatch
           [] it.t = "wb" ->
                IF (p > 1 /\ IsWord(s[p - 1])) # (p <= Len(s) /\ IsWord(s[p]))
                THEN MatchItems(re, k + 1, s, p, g)
                ELSE NoMatch
           [] it.t = "nla" ->
                IF p <= Len(s) /\ Member(s[p], it.cls) THEN NoMatch
                ELSE MatchItems(re, k + 1, s, p, g)
           [] OTHER ->
                LET longest == RunLength(s, p, it.cls) IN
                IF longest < it.min THEN NoMatch
                ELSE TryRep(re, k, s, p, g, IF it.greedy THEN longest ELSE it.min, longest)

TryRep(re, k, s, p, g, n, longest) ==
    LET it == re[k]
        g2 == IF it.cap = 0 THEN g
              ELSE [i \in 1..2 |-> IF i = it.cap THEN SubSeq(s, p, p + n - 1) ELSE g[i]]
        r == MatchItems(re, k + 1, s, p + n, g2)
    IN  IF r.ok THEN r
        ELSE IF it.greedy
             THEN (IF n > it.min THEN TryRep(re, k, s, p, g, n - 1, longest) ELSE NoMatch)
             ELSE (IF n < longest THEN TryRep(re, k, s, p, g, n + 1, longest) ELSE NoMatch)

MatchAt(re, s, p) ==
    LET r == MatchItems(re, 1, s, p, <<<<>>, <<>>>>) IN
    IF r.ok THEN [r EXCEPT !.start = p] ELSE NoMatch

(***************************************************************************)
(* The matches a global (g flag) replace finds: leftmost first, each       *)
(* search resuming where the previous match ended (one character further   *)
(* after an empty match).                                                  *)
(***************************************************************************)
RECURSIVE Matches(_, _, _)
Matches(re, s, p) ==
    IF p > Len(s) + 1 THEN <<>>
    ELSE LET r == MatchAt(re, s, p) IN
         IF ~r.ok THEN Matches(re, s, p + 1)
         ELSE <<r>> \o Matches(re, s, IF r.end = p THEN p + 1 ELSE r.end)

MatchText(s, m) == SubSeq(s, m.start, m.end - 1)

\* The result of a global replace: s with each match replaced by its replacement.
Splice(s, ms, reps) ==
    Flatten([i \in 1..Len(ms) |->
                SubSeq(s, IF i = 1 THEN 1 ELSE ms[i - 1].end, ms[i].start - 1) \o reps[i]])
    \o SubSeq(s, IF ms = <<>> THEN 1 ELSE ms[Len(ms)].end, Len(s))

(***************************************************************************)
(* A replacement string: literal text and the group references $1, $2.     *)
(***************************************************************************)
T(str) == [grp |-> 0, s |-> Chars(str)]
Text(chars) == [grp |-> 0, s |-> chars]
Ref(n) == [grp |-> n, s |-> <<>>]
Expand(tpl, m) ==
    Flatten([i \in 1..Len(tpl) |-> IF tpl[i].grp = 0 THEN tpl[i].s ELSE m.g[tpl[i].grp]])

\* String.prototype.replace(regexp with the g flag, string)
Replace(re, s, tpl) ==
    LET ms == Matches(re, s, 1) IN
    Splice(s, ms, [i \in 1..Len(ms) |-> Expand(tpl, ms[i])])

\* String.prototype.replace(string, string): the first occurrence only.
RECURSIVE IndexOf(_, _, _)
IndexOf(s, lit, p) ==
    IF p + Len(lit) - 1 > Len(s) THEN 0
    ELSE IF HasPrefixAt(s, p, lit) THEN p ELSE IndexOf(s, lit, p + 1)

ReplaceFirst(s, lit, by) ==
    LET p == IndexOf(s, lit, 1) IN
    IF p = 0 THEN s ELSE SubSeq(s, 1, p - 1) \o by \o SubSeq(s, p + Len(lit), Len(s))

\* String.prototype.trim
RECURSIVE TrimStart(_)
TrimStart(s) == IF s # <<>> /\ IsSpace(Head(s)) THEN TrimStart(Tail(s)) ELSE s
RECURSIVE TrimEnd(_)
TrimEnd(s) == IF s # <<>> /\ IsSpace(s[Len(s)]) THEN TrimEnd(SubSeq(s, 1, Len(s) - 1)) ELSE s
Trim(s) == TrimEnd(TrimStart(s))

StartsWith(s, lit) == HasPrefixAt(s, 1, lit)

\* String.prototype.toUpperCase on one character
ToUpperCase(c) ==
    IF \E i \in 1..26 : LowerCase[i] = c
    THEN UpperCase[CHOOSE i \in 1..26 : LowerCase[i] = c]
    ELSE c

\* String.prototype.split('\n')
RECURSIVE SplitLines(_)
SplitLines(s) ==
    LET p == IndexOf(s, <<"\n">>, 1) IN
    IF p = 0 THEN <<s>> ELSE <<SubSeq(s, 1, p - 1)>> \o SplitLines(SubSeq(s, p + 1, Len(s)))

\* Array.prototype.join('\n')
RECURSIVE JoinLines(_)
JoinLines(ls) ==
    IF ls = <<>> THEN <<>>
    ELSE IF Len(ls) = 1 THEN ls[1]
    ELSE ls[1] \o <<"\n">> \o JoinLines(Tail(ls))

\* The decimal digits of a natural number (a number in a template literal).
RECURSIVE NumberToString(_)
NumberToString(n) == IF n < 10 THEN <<Digits[n + 1]>> ELSE NumberToString(n \div 10) \o <<Digits[(n % 10) + 1]>>

(***************************************************************************)
(* A chain of replace calls is a list of stages, run in order, each on the *)
(* result of the one before it.                                            *)
(***************************************************************************)
\* .replace(regexp, string)
R(re, tpl) == [kind |-> "replace", re |-> re, tpl |-> tpl]
\* .replace(string, string)
First(lit, by) == [kind |-> "first", re |-> <<Lit(lit)>>, tpl |-> <<T(by)>>]
\* .replace(regexp, function): callback names the function
Call(re, callback) == [kind |-> callback, re |-> re, tpl |-> <<>>]
\* .trim()
TrimStage == [kind |-> "trim", re |-> <<>>, tpl |-> <<>>]

NotGt == NotIn({">"})
NotQuote == NotIn({"\""})
Spaces == In(SpaceChars)

\* The backquote character (a string of the module cannot hold it) and the code fence.
Backtick == "U+0060"
Fence == <<Backtick, Backtick, Backtick>>

\* /<li[^>]*>([\s\S]*?)<\/li>/gs
LiPattern == <<Lit("<li"), Star(NotGt), Lit(">"), LazyGroup(1, AnyChar), Lit("</li>")>>

\* (match, listContent) => { items = listContent.replace(li, '- $1\n'); return '\n' + items + '\n' }
UlCallback(listContent) ==
    <<"\n">> \o Replace(LiPattern, listContent, <<T("- "), Ref(1), T("\n")>>) \o <<"\n">>

\* Faulty variant: the counter is declared once, outside the callbacks, and never reset
counterHoisted == numbered + 1

\* let counter = 1
counterStart == 1

\* () => `${counter++}. $1\n`: a function's result is inserted as it is, so $1 stays text
OlItem(counter) == NumberToString(counter) \o Chars(". $1\n")

\* (match, listContent) => { let counter = 1; items = listContent.replace(li, () => ...); ... }
OlCallback(listContent) ==
    LET ms == Matches(LiPattern, listContent, 1) IN
    <<"\n">>
    \o Splice(listContent, ms, [i \in 1..Len(ms) |-> OlItem(counterStart + i - 1)])
    \o <<"\n">>

QuoteLine(line) == Chars("> ") \o Trim(line)
IsQuoted(line) == Trim(line) # <<">">>

\* (match, content) => '\n' + content.split('\n').map(line => `> ${line.trim()}`)
\*                        .filter(line => line.trim() !== '>').join('\n') + '\n\n'
BlockquoteCallback(content) ==
    LET lines == SplitLines(content)
        quoted == [i \in 1..Len(lines) |-> QuoteLine(lines[i])]
    IN  <<"\n">> \o JoinLines(SelectSeq(quoted, IsQuoted)) \o Chars("\n\n")

\* What a callback returns for match m of s.
CallbackResult(kind, s, m) ==
    CASE kind = "ul" -> UlCallback(m.g[1])
      [] kind = "ol" -> OlCallback(m.g[1])
      [] kind = "blockquote" -> BlockquoteCallback(m.g[1])
      [] kind = "upper" -> <<ToUpperCase(s[m.start])>>

\* One call of the chain on s.
RunStage(st, s) ==
    CASE st.kind = "replace" -> Replace(st.re, s, st.tpl)
      [] st.kind = "first" -> ReplaceFirst(s, st.re[1].s, st.tpl[1].s)
      [] st.kind = "trim" -> Trim(s)
      [] OTHER -> LET ms == Matches(st.re, s, 1) IN
                  Splice(s, ms, [i \in 1..Len(ms) |-> CallbackResult(st.kind, s, ms[i])])

\* The chain from its k-th call on.  (The test of Len(r) makes TLC finish a
\* stage before it starts the next, as the chain runs; it is always true.)
RECURSIVE RunStages(_, _, _)
RunStages(stages, k, s) ==
    IF k > Len(stages) THEN s
    ELSE LET r == RunStage(stages[k], s) IN
         IF Len(r) >= 0 THEN RunStages(stages, k + 1, r) ELSE s

(***************************************************************************)
(* convertVueToMarkdown: the title and the frontmatter.                    *)
(***************************************************************************)
\* filename.replace('.vue', '').replace(/-/g, ' ').replace(/\b\w/g, l => l.toUpperCase())
\* Faulty variant: the dash is replaced with a string pattern: the first dash only
TitleStagesFirstDash ==
    << First(".vue", ""),
       First("-", " "),
       Call(<<WordBoundary, One(In(WordChars))>>, "upper") >>

TitleStages ==
    << First(".vue", ""),
       R(<<Lit("-")>>, <<T(" ")>>),
       Call(<<WordBoundary, One(In(WordChars))>>, "upper") >>

title(filename) == RunStages(TitleStages, 1, filename)

\* Faulty variant: the description is written without the title
frontmatterPlainDescription(t) ==
    Chars("---\ntitle: ") \o t \o Chars("\ndescription: ")
    \o Chars("Documentation for Base Framework.\n---\n\n")

\* `---\ntitle: ${title}\ndescription: ${title} documentation for Base Framework.\n---\n\n`
frontmatter(t) ==
    Chars("---\ntitle: ") \o t \o Chars("\ndescription: ") \o t
    \o Chars(" documentation for Base Framework.\n---\n\n")

(***************************************************************************)
(* convertVueToMarkdown: the stages, in the order of the replace chain.    *)
(***************************************************************************)
\* Remove Vue template tags and extract content
ExtractStages ==
    << R(<<Lit("<template>")>>, <<>>),
       R(<<Lit("</template>")>>, <<>>),
       R(<<Lit("<script"), Star(NotGt), Lit(">"), Lazy(AnyChar), Lit("</script>")>>, <<>>),
       R(<<Lit("<style"), Star(NotGt), Lit(">"), Lazy(AnyChar), Lit("</style>")>>, <<>>),
       R(<<Lit("<!--"), Lazy(AnyChar), Lit("-->")>>, <<>>),
       TrimStage >>

\* Remove Vue components and directives first
DirectiveStages ==
    << R(<<Lit("<"), One(In(Range(UpperCase))), Star(NotGt), Lit(">")>>, <<>>),
       R(<<Lit("</"), One(In(Range(UpperCase))), Star(NotGt), Lit(">")>>, <<>>),
       R(<<Lit("v-"), Plus(In(Range(LowerCase) \cup Range(UpperCase) \cup {"-"})),
           Lit("=\""), Star(NotQuote), Lit("\"")>>, <<>>),
       R(<<Lit(":"), Plus(In(WordChars \cup {"-"})), Lit("=\""), Star(NotQuote), Lit("\"")>>, <<>>),
       R(<<Lit("@"), Plus(In(WordChars \cup {"-"})), Lit("=\""), Star(NotQuote), Lit("\"")>>, <<>>) >>

\* Convert code blocks first (most important)
CodeBlockStages ==
    << R(<<Lit("<pre"), Star(NotGt), Lit("><code"), Star(NotGt),
           Lit("class=\"language-"), Group(1, NotQuote), Lit("\""), Star(NotGt),
           Lit(">"), LazyGroup(2, AnyChar), Lit("</code></pre>")>>,
         <<Text(Fence), Ref(1), T("\n"), Ref(2), Text(<<"\n">> \o Fence)>>),
       R(<<Lit("<pre"), Star(NotGt), Lit("><code"), Star(NotGt), Lit(">"),
           LazyGroup(1, AnyChar), Lit("</code></pre>")>>,
         <<Text(Fence \o <<"\n">>), Ref(1), Text(<<"\n">> \o Fence)>>),
       R(<<Lit("<pre"), Star(NotGt), Lit(">"), LazyGroup(1, AnyChar), Lit("</pre>")>>,
         <<Text(Fence \o <<"\n">>), Ref(1), Text(<<"\n">> \o Fence)>>),
       R(<<Lit("<code"), Star(NotGt), Lit("class=\"language-"), Group(1, NotQuote),
           Lit("\""), Star(NotGt), Lit(">"), LazyGroup(2, NotNewline), Lit("</code>")>>,
         <<Text(Fence), Ref(1), T("\n"), Ref(2), Text(<<"\n">> \o Fence)>>) >>

\* .replace(/<hN[^>]*>(.*?)<\/hN>/gs, '\n#..# $1\n\n')
HeaderStage(open, close, hashes) ==
    R(<<Lit(open), Star(NotGt), Lit(">"), LazyGroup(1, AnyChar), Lit(close)>>,
      <<T("\n"), T(hashes), T(" "), Ref(1), T("\n\n")>>)

\* Convert headers
HeaderStages ==
    << HeaderStage("<h1", "</h1>", "#"),
       HeaderStage("<h2", "</h2>", "##"),
       HeaderStage("<h3", "</h3>", "###"),
       HeaderStage("<h4", "</h4>", "####"),
       HeaderStage("<h5", "</h5>", "#####"),
       HeaderStage("<h6", "</h6>", "######") >>

\* Convert lists with proper spacing
ListStages ==
    << Call(<<Lit("<ul"), Star(NotGt), Lit(">"), LazyGroup(1, AnyChar), Lit("</ul>")>>, "ul"),
       Call(<<Lit("<ol"), Star(NotGt), Lit(">"), LazyGroup(1, AnyChar), Lit("</ol>")>>, "ol") >>

\* Convert paragraphs
ParagraphStages ==
    << R(<<Lit("<p"), Star(NotGt), Lit(">"), LazyGroup(1, AnyChar), Lit("</p>")>>,
         <<Ref(1), T("\n\n")>>) >>

\* .replace(/<tag[^>]*>(.*?)<\/tag>/gs, mark + '$1' + mark)
InlineStage(open, close, mark) ==
    R(<<Lit(open), Star(NotGt), Lit(">"), LazyGroup(1, AnyChar), Lit(close)>>,
      <<Text(mark), Ref(1), Text(mark)>>)

\* Convert text formatting
FormattingStages ==
    << InlineStage("<strong", "</strong>", Chars("**")),
       InlineStage("<b", "</b>", Chars("**")),
       InlineStage("<em", "</em>", Chars("*")),
       InlineStage("<i", "</i>", Chars("*")),
       InlineStage("<code", "</code>", <<Backtick>>) >>

\* Faulty variant: the two groups are used the other way round
LinkStagesSwapped ==
    << R(<<Lit("<a"), Star(NotGt), Lit("href=\""), Group(1, NotQuote), Lit("\""), Star(NotGt),
           Lit(">"), LazyGroup(2, AnyChar), Lit("</a>")>>,
         <<T("["), Ref(1), T("]("), Ref(2), T(")")>>) >>

\* Convert links
LinkStages ==
    << R(<<Lit("<a"), Star(NotGt), Lit("href=\""), Group(1, NotQuote), Lit("\""), Star(NotGt),
           Lit(">"), LazyGroup(2, AnyChar), Lit("</a>")>>,
         <<T("["), Ref(2), T("]("), Ref(1), T(")")>>) >>

\* Convert blockquotes
BlockquoteStages ==
    << Call(<<Lit("<blockquote"), Star(NotGt), Lit(">"), LazyGroup(1, AnyChar),
              Lit("</blockquote>")>>, "blockquote") >>

\* .replace(/<div[^>]*class="[^"]*word[^"]*"[^>]*>([\s\S]*?)<\/div>/gs, fence + '\n$1\n' + fence)
DivStage(word) ==
    R(<<Lit("<div"), Star(NotGt), Lit("class=\""), Star(NotQuote), Lit(word), Star(NotQuote),
        Lit("\""), Star(NotGt), Lit(">"), LazyGroup(1, AnyChar), Lit("</div>")>>,
      <<Text(Fence \o <<"\n">>), Ref(1), Text(<<"\n">> \o Fence)>>)

\* Convert divs with classes to appropriate markdown
DivStages == << DivStage("code"), DivStage("highlight") >>

\* The bullet glyphs U+2022, U+25E6 and U+25AA, each one character of the string.
Bullet == "U+2022"
WhiteBullet == "U+25E6"
SmallSquare == "U+25AA"
Glyph(c) == [t |-> "lit", s |-> <<c>>, cls |-> AnyChar, min |-> 0, greedy |-> TRUE, cap |-> 0]

\* Convert bullet point symbols to proper markdown; clean up double dashes in lists
BulletStages ==
    << R(<<Bol, Glyph(Bullet), Star(Spaces)>>, <<T("- ")>>),
       R(<<Bol, Lit("*"), Plus(Spaces), NotAhead(In({"*"}))>>, <<T("- ")>>),
       R(<<Bol, Glyph(WhiteBullet), Star(Spaces)>>, <<T("  - ")>>),
       R(<<Bol, Glyph(SmallSquare), Star(Spaces)>>, <<T("  - ")>>),
       R(<<Bol, Lit("-"), Star(Spaces), Glyph(Bullet), Star(Spaces)>>, <<T("- ")>>),
       R(<<Bol, Lit("-"), Star(Spaces), Lit("*"), Star(Spaces)>>, <<T("- ")>>),
       R(<<Bol, Lit("-"), Star(Spaces), Lit("-"), Star(Spaces)>>, <<T("- ")>>),
       R(<<Bol, Lit("-"), Plus(Spaces), Lit("-"), Plus(Spaces)>>, <<T("- ")>>),
       R(<<Bol, Lit("-"), Star(Spaces), Lit("-"), Plus(Spaces)>>, <<T("- ")>>) >>

\* Remove remaining HTML tags but keep content
TagStages == << R(<<Lit("<"), Plus(NotGt), Lit(">")>>, <<>>) >>

\* Clean up whitespace and formatting
WhitespaceStages ==
    << R(<<Lit("\n"), Star(Spaces), Lit("\n"), Star(Spaces), Plus(In({"\n"}))>>, <<T("\n\n")>>),
       R(<<Bol, Plus(Spaces)>>, <<>>),
       R(<<Plus(Spaces), Eol>>, <<>>),
       R(<<Rep(In({"\n"}), 3, TRUE, 0)>>, <<T("\n\n")>>),
       TrimStage >>

\* content = content.replace(...)...trim(): line 57 to line 133
TransformStages ==
    DirectiveStages \o CodeBlockStages \o HeaderStages \o ListStages \o ParagraphStages
    \o FormattingStages \o LinkStages \o BlockquoteStages \o DivStages \o BulletStages
    \o TagStages \o WhitespaceStages

ExtractContent(vueContent) == RunStages(ExtractStages, 1, vueContent)
TransformContent(content) == RunStages(TransformStages, 1, content)

\* Faulty variant: the heading is never added
AddHeadingNever(content, t) == content

\* Add the title as main heading if not present
AddHeading(content, t) ==
    IF ~StartsWith(content, <<"#">>) THEN Chars("# ") \o t \o Chars("\n\n") \o content ELSE content

\* markdown += content; return markdown
Compose(t, content) == frontmatter(t) \o AddHeading(content, t)

convertVueToMarkdown(vueContent, filename) ==
    Compose(title(filename), RunStages(ExtractStages \o TransformStages, 1, vueContent))

(***************************************************************************)
(* The batch: the configured list, the two directories and the console.    *)
(***************************************************************************)
\* const vueFiles = [ ... ]
AllVueFiles ==
    << Chars("installation.vue"), Chars("quick-start.vue"), Chars("tutorial.vue"),
       Chars("cli.vue"), Chars("structure.vue"), Chars("anatomy.vue"),
       Chars("application.vue"), Chars("auth.vue"), Chars("configuration.vue"),
       Chars("router.vue"), Chars("middleware.vue"), Chars("validator.vue"),
       Chars("storage.vue"), Chars("email.vue"), Chars("logger.vue"),
       Chars("scheduler.vue"), Chars("websocket.vue"), Chars("emitter.vue"),
       Chars("translation.vue"), Chars("base-helpers.vue"), Chars("api.vue") >>

\* The model runs the loop over the first NumFiles names of the list.
NumFiles == 3
vueFiles == SubSeq(AllVueFiles, 1, NumFiles)

\* Faulty variant: the extension is kept and .md appended
mdFileAppended(vueFile) == vueFile \o Chars(".md")

\* const mdFile = vueFile.replace('.vue', '.md')
mdFile(vueFile) == ReplaceFirst(vueFile, Chars(".vue"), Chars(".md"))

\* A path of a directory: no file, or a file with its text.
NoFile == [exists |-> FALSE, data |-> <<>>]
File(data) == [exists |-> TRUE, data |-> data]

\* What the source directory may hold under a configured name.
SampleContents == { Chars("<p>a</p>"), Chars("<script>x") }
\* What the destination directory may hold before the run: the output of an earlier run.
OldOutput == File(Chars("old"))

batchVars == <<pc, index, source, dest, destDir, log, writes>>
convVars == <<callContent, callName, markdown, numbered, earlier>>
vars == <<pc, index, source, dest, destDir, log, writes,
          callContent, callName, markdown, numbered, earlier>>

NoDoc == [done |-> FALSE, text |-> <<>>]
Doc(text) == [done |-> TRUE, text |-> text]
NoCall == [set |-> FALSE, vueContent |-> <<>>, filename |-> <<>>, text |-> <<>>]

\* No conversion is under way (the state of the converter's variables in the batch model).
ConvIdle ==
    /\ callContent = <<>>
    /\ callName = <<>>
    /\ markdown = NoDoc
    /\ numbered = 0
    /\ earlier = NoCall

\* No batch is under way (the state of the batch's variables in the converter's models).
BatchIdle ==
    /\ pc = "idle"
    /\ index = 0
    /\ source = <<>>
    /\ dest = <<>>
    /\ destDir = "absent"
    /\ log = <<>>
    /\ writes = <<>>

MdNames == {mdFile(vueFiles[i]) : i \in 1..NumFiles}

Init ==
    /\ pc = "setup"
    /\ index = 1
    /\ source \in [Range(vueFiles) -> {NoFile} \cup {File(c) : c \in SampleContents}]
    /\ destDir \in {"absent", "writable", "readonly"}
    /\ dest \in {[n \in MdNames |-> NoFile]}
                \cup (IF destDir = "absent" THEN {} ELSE {[n \in MdNames |-> OldOutput]})
    /\ log = <<>>
    /\ writes = <<>>
    /\ ConvIdle

\* The console lines.
Line(kind, file, detail) == [kind |-> kind, file |-> file, detail |-> detail]
\* console.log('Converted ' + vueFile + ' -> ' + mdFile)
ConvertedLine(vueFile) == Line("converted", vueFile, mdFile(vueFile))
\* console.log('File not found: ' + sourcePath)
NotFoundLine(vueFile) == Line("notfound", vueFile, <<>>)
\* console.error('Error converting ' + vueFile + ':', error.message)
ErrorLine(vueFile, cause) == Line("error", vueFile, cause)
\* console.log('\n Documentation conversion complete!')
CompleteLine == Line("complete", <<>>, <<>>)

(***************************************************************************)
(* if (!fs.existsSync(DEST_DIR)) fs.mkdirSync(DEST_DIR, { recursive: true }) *)
(* The statement stands outside every try block: when mkdirSync throws     *)
(* (a parent that cannot be written, a file in the way), the exception     *)
(* ends the process.                                                       *)
(***************************************************************************)
SetupExists ==
    /\ pc = "setup"
    /\ destDir # "absent"
    /\ pc' = "loop"
    /\ UNCHANGED <<index, source, dest, destDir, log, writes>>
    /\ UNCHANGED convVars

SetupMkdir ==
    /\ pc = "setup"
    /\ destDir = "absent"
    /\ destDir' = "writable"
    /\ pc' = "loop"
    /\ UNCHANGED <<index, source, dest, log, writes>>
    /\ UNCHANGED convVars

SetupMkdirThrows ==
    /\ pc = "setup"
    /\ destDir = "absent"
    /\ pc' = "crashed"
    /\ UNCHANGED <<index, source, dest, destDir, log, writes>>
    /\ UNCHANGED convVars

(***************************************************************************)
(* vueFiles.forEach(vueFile => { try { ... } catch (error) { ... } })      *)
(* One action for every way the callback can run for the file at index.    *)
(***************************************************************************)
InLoop == pc = "loop" /\ index <= Len(vueFiles)

\* Faulty variant: the catch block throws the error again: the exception ends the process
CatchRethrows(vueFile, cause) ==
    /\ log' = Append(log, ErrorLine(vueFile, cause))
    /\ index' = index
    /\ pc' = "crashed"

\* catch (error) { console.error(...) }: the callback returns and forEach goes on.
Catch(vueFile, cause) ==
    /\ log' = Append(log, ErrorLine(vueFile, cause))
    /\ index' = index + 1
    /\ pc' = pc

\* Faulty variant: a missing file is skipped without a line
FileNotFoundSilent ==
    /\ InLoop
    /\ ~source[vueFiles[index]].exists
    /\ index' = index + 1
    /\ UNCHANGED <<pc, source, dest, destDir, log, writes>>
    /\ UNCHANGED convVars

\* } else { console.log('File not found: ' + sourcePath) }
FileNotFound ==
    /\ InLoop
    /\ ~source[vueFiles[index]].exists
    /\ log' = Append(log, NotFoundLine(vueFiles[index]))
    /\ index' = index + 1
    /\ UNCHANGED <<pc, source, dest, destDir, writes>>
    /\ UNCHANGED convVars

\* fs.readFileSync(sourcePath, 'utf8') throws
ReadThrows ==
    /\ InLoop
    /\ source[vueFiles[index]].exists
    /\ Catch(vueFiles[index], "read")
    /\ UNCHANGED <<source, dest, destDir, writes>>
    /\ UNCHANGED convVars

\* Faulty variant: the output file is opened, and so emptied, before the conversion
ConvertThrowsAfterOpen ==
    /\ InLoop
    /\ source[vueFiles[index]].exists
    /\ destDir = "writable"
    /\ dest' = [dest EXCEPT ![mdFile(vueFiles[index])] = File(<<>>)]
    /\ Catch(vueFiles[index], "convert")
    /\ UNCHANGED <<source, destDir, writes>>
    /\ UNCHANGED convVars

\* convertVueToMarkdown(vueContent, vueFile) throws (an exception of the engine)
ConvertThrows ==
    /\ InLoop
    /\ source[vueFiles[index]].exists
    /\ Catch(vueFiles[index], "convert")
    /\ UNCHANGED <<source, dest, destDir, writes>>
    /\ UNCHANGED convVars

\* Faulty variant: the output of an earlier run is removed before the write is tried
WriteThrowsAfterUnlink ==
    /\ InLoop
    /\ source[vueFiles[index]].exists
    /\ dest' = [dest EXCEPT ![mdFile(vueFiles[index])] = NoFile]
    /\ Catch(vueFiles[index], "write")
    /\ UNCHANGED <<source, destDir, writes>>
    /\ UNCHANGED convVars

\* fs.writeFileSync(destPath, markdown) throws: the file cannot be opened for writing
WriteThrows ==
    /\ InLoop
    /\ source[vueFiles[index]].exists
    /\ Catch(vueFiles[index], "write")
    /\ UNCHANGED <<source, dest, destDir, writes>>
    /\ UNCHANGED convVars

\* The try block runs to its end.
Converted ==
    /\ InLoop
    /\ source[vueFiles[index]].exists
    /\ destDir = "writable"
    /\ dest' = [dest EXCEPT ![mdFile(vueFiles[index])] =
                    File(convertVueToMarkdown(source[vueFiles[index]].data, vueFiles[index]))]
    /\ writes' = Append(writes, mdFile(vueFiles[index]))
    /\ log' = Append(log, ConvertedLine(vueFiles[index]))
    /\ index' = index + 1
    /\ UNCHANGED <<pc, source, destDir>>
    /\ UNCHANGED convVars

\* console.log('\n Documentation conversion complete!')
Complete ==
    /\ pc = "loop"
    /\ index > Len(vueFiles)
    /\ log' = Append(log, CompleteLine)
    /\ pc' = "done"
    /\ UNCHANGED <<index, source, dest, destDir, writes>>
    /\ UNCHANGED convVars

Next ==
    \/ SetupExists
    \/ SetupMkdir
    \/ SetupMkdirThrows
    \/ FileNotFound
    \/ ReadThrows
    \/ ConvertThrows
    \/ WriteThrows
    \/ Converted
    \/ Complete

Spec == Init /\ [][Next]_vars

\* The script is one synchronous run: a step that can be taken is taken.
FairSpec == Spec /\ WF_vars(Next)

(***************************************************************************)
(* The batch: what holds of every run (C1 to C6).                          *)
(***************************************************************************)
\* The lines of one kind on the console.
Count(kind) == Cardinality({i \in 1..Len(log) : log[i].kind = kind})
\* The i-th configured file was read, converted and written without an exception.
Succeeded(i) == source[vueFiles[i]].exists /\ log[i].kind # "error"
\* The source name with its extension (the last four characters) swapped for .md.
ExpectedMd(vueFile) == SubSeq(vueFile, 1, Len(vueFile) - 4) \o Chars(".md")

C1_LogFollowsList ==
    /\ pc \in {"setup", "crashed"} => log = <<>>
    /\ pc \in {"loop", "done"} =>
        /\ index \in 1..(Len(vueFiles) + 1)
        /\ Len(log) = (index - 1) + (IF pc = "done" THEN 1 ELSE 0)
        /\ \A i \in 1..(index - 1) :
              /\ log[i].file = vueFiles[i]
              /\ log[i].kind \in {"converted", "notfound", "error"}
              /\ ~source[vueFiles[i]].exists => log[i].kind = "notfound"
        /\ pc = "done" => index = Len(vueFiles) + 1 /\ log[Len(log)] = CompleteLine

\* C1: in a run over the configured list every file name is attempted exactly once, in
\* list order (the console holds one line per attempted file, naming it, in the order
\* of the list); a missing file, or an exception while reading, converting or writing,
\* leaves a line that names the file and does not keep the loop from the later files:
\* once the loop has started, the run reaches the completion message.
C1_EachFileAttemptedOnce ==
    /\ []C1_LogFollowsList
    /\ (pc = "loop") ~> (pc = "done" /\ log[Len(log)] = CompleteLine)

\* A run that ended after a file failed and a later file was converted.
C1_Witness ==
    /\ pc = "done"
    /\ \E i, j \in 1..Len(vueFiles) :
          i < j /\ log[i].kind \in {"notfound", "error"} /\ log[j].kind = "converted"

C5_NoErrorEndsTheBatch == pc # "crashed"

\* The source has a <script, <style or <!-- opener that no closing delimiter ends.
HasMatch(re, s) == Matches(re, s, 1) # <<>>
Malformed(s) ==
    \/ HasMatch(<<Lit("<script")>>, s) /\ ~HasMatch(ExtractStages[3].re, s)
    \/ HasMatch(<<Lit("<style")>>, s) /\ ~HasMatch(ExtractStages[4].re, s)
    \/ HasMatch(<<Lit("<!--")>>, s) /\ ~HasMatch(ExtractStages[5].re, s)

\* C6 as claimed: a source with malformed script/style/comment boundaries is a per-file
\* failure: an error line names it and no output file is written for it.
C6_MalformedIsFailure ==
    pc \in {"loop", "done"} =>
        \A i \in 1..(index - 1) :
            (source[vueFiles[i]].exists /\ Malformed(source[vueFiles[i]].data))
                => /\ log[i].kind = "error"
                   /\ ExpectedMd(vueFiles[i]) \notin Range(writes)

(***************************************************************************)
(* The converter on its own: convertVueToMarkdown called on inputs drawn   *)
(* from bounded sets, once (SpecConv, SpecTitle) or again and again in one *)
(* process (SpecOrder).                                                    *)
(***************************************************************************)
RECURSIVE SumOf(_)
SumOf(ns) == IF ns = <<>> THEN 0 ELSE Head(ns) + SumOf(Tail(ns))

\* The stages that run before the <ol> stage.
StagesBeforeOl ==
    ExtractStages \o DirectiveStages \o CodeBlockStages \o HeaderStages \o <<ListStages[1]>>

\* How many times counter++ runs on s, the content as the <ol> stage finds it: once for
\* every <li> of every <ol>.
NumberedIn(s) ==
    LET ols == Matches(ListStages[2].re, s, 1) IN
    IF Len(ols) = 0 THEN 0
    ELSE SumOf([i \in 1..Len(ols) |-> Len(Matches(LiPattern, ols[i].g[1], 1))])

\* How many times counter++ runs in one call of convertVueToMarkdown.
NumberedItems(content) ==
    LET s == RunStages(StagesBeforeOl, 1, content) IN
    IF Len(s) = 0 THEN 0 ELSE NumberedIn(s)

\* The model stops numbering at MaxNumbered items in one process.
MaxNumbered == 4

\* const markdown = convertVueToMarkdown(vueContent, vueFile)
ConvertCall ==
    /\ pc = "idle"
    /\ ~markdown.done
    /\ markdown' = Doc(convertVueToMarkdown(callContent, callName))
    /\ \E n \in {NumberedItems(callContent)} :
          /\ numbered + n <= MaxNumbered
          /\ numbered' = numbered + n
    /\ UNCHANGED <<callContent, callName, earlier>>
    /\ UNCHANGED batchVars

\* The pieces the sample contents are made of, and how many pieces a content has at most.
Fragments ==
    { Chars("<template>"), Chars("</template>"), Chars("<script>x</script>"),
      Chars("<style>y</style>"), Chars("<!--c-->"), Chars("<div v-if=\"a\">"),
      Chars("<p>t</p>"), Chars("<h1>T</h1>"), Chars("# "), Chars("t"),
      Chars("\n"), Chars("<script>") }
MaxFragments == 2

RECURSIVE ContentsOf(_)
ContentsOf(n) ==
    IF n = 0 THEN {<<>>}
    ELSE ContentsOf(n - 1) \cup {c \o f : c \in ContentsOf(n - 1), f \in Fragments}

ConvNames == {Chars("api.vue"), Chars("quick-start.vue")}

InitConv ==
    /\ BatchIdle
    /\ callContent \in ContentsOf(MaxFragments)
    /\ callName \in ConvNames
    /\ markdown = NoDoc
    /\ numbered = 0
    /\ earlier = NoCall

NextConv == ConvertCall

SpecConv == InitConv /\ [][NextConv]_vars

\* File names: word tokens joined by - or _, followed by the extension.
Tokens == {Chars("api"), Chars("quick"), Chars("start")}
Separators == {<<"-">>, <<"_">>}
MaxTokens == 3

RECURSIVE StemsOf(_)
StemsOf(n) ==
    IF n = 1 THEN Tokens
    ELSE StemsOf(n - 1)
         \cup {st \o sep \o tok : st \in StemsOf(n - 1), sep \in Separators, tok \in Tokens}

TitleNames == {st \o Chars(".vue") : st \in StemsOf(MaxTokens)}

InitTitle ==
    /\ BatchIdle
    /\ callContent \in {<<>>, Chars("<p>t</p>")}
    /\ callName \in TitleNames
    /\ markdown = NoDoc
    /\ numbered = 0
    /\ earlier = NoCall

SpecTitle == InitTitle /\ [][NextConv]_vars

\* Calls one after another in one process, as the loop makes them.
OrderContents ==
    { <<>>, Chars("<p>t</p>"), Chars("<ol><li>a</li></ol>"),
      Chars("<ol><li>a</li><li>b</li></ol>") }

InitOrder ==
    /\ BatchIdle
    /\ callContent \in OrderContents
    /\ callName \in ConvNames
    /\ markdown = NoDoc
    /\ numbered = 0
    /\ earlier = NoCall

ThisCall == [set |-> TRUE, vueContent |-> callContent, filename |-> callName,
             text |-> markdown.text]

\* forEach calls the callback for the next file: a new call of convertVueToMarkdown.
NextCall ==
    /\ pc = "idle"
    /\ markdown.done
    /\ callContent' \in OrderContents
    /\ callName' \in ConvNames
    /\ markdown' = NoDoc
    /\ earlier' \in {earlier, ThisCall}
    /\ UNCHANGED numbered
    /\ UNCHANGED batchVars

NextOrder ==
    \/ ConvertCall
    \/ NextCall

SpecOrder == InitOrder /\ [][NextOrder]_vars

Stem(name) == SubSeq(name, 1, Len(name) - 4)
\* The lines of the returned document.
DocLines == SplitLines(markdown.text)
\* The text after "title: " on the second line of the document.
FrontmatterTitle == SubSeq(DocLines[2], 8, Len(DocLines[2]))

\* A stem with every separator of seps turned into a space, and the first character and
\* every character after such a separator in upper case.
TitleSplitAt(stem, seps) ==
    [i \in 1..Len(stem) |->
        IF stem[i] \in seps THEN " "
        ELSE IF i = 1 \/ stem[i - 1] \in seps THEN ToUpperCase(stem[i])
        ELSE stem[i]]

\* C8 as claimed: for a file name of word tokens joined by - or _, the frontmatter
\* title is the tokens, each with its first letter capitalized, joined by single spaces.
C8_TitleFromKebabOrSnake ==
    markdown.done => FrontmatterTitle = TitleSplitAt(Stem(callName), {"-", "_"})

\* C8 as amended: only the dash separates tokens.  The title is the name without the
\* extension, every dash turned into a space, and the first letter of the name and of
\* every token after a dash capitalized; an underscore stays in the title and the
\* token after it is not capitalized.  The title depends on the file name alone.
C8_TitleFromKebab ==
    markdown.done => FrontmatterTitle = TitleSplitAt(Stem(callName), {"-"})

\* A name with both separators: quick-start_api.vue is titled "Quick Start_api".
C8_Witness ==
    /\ markdown.done
    /\ callName = Chars("quick-start_api.vue")
    /\ FrontmatterTitle = Chars("Quick Start_api")
    /\ callContent # <<>>

\* C9: every returned document begins with the lines ---, title: T,
\* description: T documentation for Base Framework., ---, and an empty line, and the
\* body follows; T is the title derived from the file name, the same in both lines.
C9_BeginsWithFrontmatter ==
    markdown.done =>
        LET t == TitleSplitAt(Stem(callName), {"-"}) IN
        /\ Len(DocLines) > 5
        /\ DocLines[1] = Chars("---")
        /\ DocLines[2] = Chars("title: ") \o t
        /\ DocLines[3] = Chars("description: ") \o t \o Chars(" documentation for Base Framework.")
        /\ DocLines[4] = Chars("---")
        /\ DocLines[5] = <<>>

\* A document for quick-start.vue with content of its own.
C9_Witness ==
    /\ markdown.done
    /\ callName = Chars("quick-start.vue")
    /\ callContent = Chars("<template><p>t</p>")
    /\ DocLines[2] = Chars("title: Quick Start")

\* The text of the document after the five lines of the frontmatter.
Body == JoinLines(SubSeq(DocLines, 6, Len(DocLines)))

\* C10: for every input content (the empty one, and those of script and style blocks,
\* comments, directives and tags only), the returned document has a body after the
\* frontmatter that is not empty: it holds a character that is not white space.
C10_BodyNotEmpty ==
    markdown.done => \E i \in 1..Len(Body) : ~IsSpace(Body[i])

\* A document for a content that is a script block and a comment, and nothing else.
C10_Witness ==
    /\ markdown.done
    /\ callContent = Chars("<script>x</script><!--c-->")
    /\ Body # <<>>

(***************************************************************************)
(* The converter on markup: convertVueToMarkdown called once on a content  *)
(* of one of eight families (headings, code blocks, lists, links, script   *)
(* and style sections, Markdown text, components and directives, white     *)
(* space).                                                                 *)
(***************************************************************************)
\* <tag>inner</tag>
El(tag, inner) ==
    Chars("<") \o Chars(tag) \o Chars(">") \o inner \o Chars("</") \o Chars(tag) \o Chars(">")

HeadingTexts == {Chars("T"), Chars("Go on")}
HeadingContents ==
    {pre \o h \o post :
        pre \in {<<>>, El("p", Chars("intro"))},
        h \in {El("h1", t) : t \in HeadingTexts}
              \cup {<<>>, El("h2", Chars("S")), El("h1", Chars("T")) \o El("h1", Chars("U"))},
        post \in {<<>>, El("p", Chars("t"))}}

\* <pre><code class="language-X">T</code></pre>, or without the class when lang is empty
CodeBlock(lang, text) ==
    Chars("<pre><code")
    \o (IF lang = <<>> THEN <<>> ELSE Chars(" class=\"language-") \o lang \o Chars("\""))
    \o Chars(">") \o text \o Chars("</code></pre>")
CodeLangs == {<<>>, Chars("go")}
CodeTexts ==
    { Chars("x := 1"), Chars("a\n  b"), Chars("a\n\nb"), Chars("- x"), Chars("* x"),
      Chars("-- x"), Chars("a <b> c"), Chars("@click=\"f\"") }
CodeContents == {CodeBlock(lang, text) : lang \in CodeLangs, text \in CodeTexts}

\* <ul> or <ol> with one <li> per item; a list has MaxItems items at most
ListOf(tag, items) == El(tag, Flatten([i \in 1..Len(items) |-> El("li", items[i])]))
ItemTexts == {Chars("A"), Chars("B"), Chars("-1"), Chars("* x")}
MaxItems == 2
ItemLists == UNION {[1..n -> ItemTexts] : n \in 1..MaxItems}
ListContents == {ListOf(tag, items) : tag \in {"ul", "ol"}, items \in ItemLists}

\* <a href="U">t</a>
Anchor(url, text) == Chars("<a href=\"") \o url \o Chars("\">") \o text \o Chars("</a>")
Urls == {Chars("https://x.com"), Chars("/a_b"), Chars("a>b")}
LinkTexts == {Chars("click"), Chars("t u")}
Anchors == {<<url, text>> : url \in Urls, text \in LinkTexts}
LinkContents ==
    {pre \o Anchor(a[1], a[2]) : pre \in {<<>>, Chars("see ")}, a \in Anchors}
    \cup {Anchor(a[1], a[2]) \o Chars(" and ") \o Anchor(b[1], b[2]) : a \in Anchors, b \in Anchors}

\* A script or style section with the payload between its opener and what ends it.
Payload == Chars("secret")
SectionOpeners ==
    {Chars("<script>"), Chars("<script setup lang=\"ts\">"), Chars("<SCRIPT>"),
     Chars("<style>"), Chars("<style scoped>")}
SectionClosers == {Chars("</script>"), Chars("</style>"), Chars("</SCRIPT>"), <<>>}
SectionContents ==
    {El("p", Chars("t")) \o open \o Payload \o close :
        open \in SectionOpeners, close \in SectionClosers}

\* Files that are Markdown already.
MarkdownContents ==
    { Chars("# T\n\ntext"), Chars("text\n\n# T"), Chars("## S\n\ntext"),
      Chars("# T\n\n## S\n\ntext"),
      Chars("# T\n\n") \o Fence \o Chars("\nx\n") \o Fence,
      Chars("# T\n\n") \o Fence \o Chars("\nif x:\n    y\n") \o Fence }

\* Components and directives around the text t, and text that looks like a binding.
DirectiveContents ==
    { Chars("<Comp>t</Comp>"), Chars("<Comp :a=\"b\">t</Comp>"),
      Chars("<div v-if=\"a\">t</div>"), Chars("<li v-for=\"i in l\">t</li>"),
      Chars("<div @click=\"f\">t</div>"), Chars("<Comp v-if=\"a > b\">t</Comp>"),
      Chars("use @click=\"go\" here") }

\* Texts whose parts are separated by newlines and spaces.
WhitespaceContents ==
    { Chars("<p>a</p><p>b</p>"), Chars("a\n\nb"), Chars("a\n\n\nb"), Chars("a\n\n\n\nb"),
      Chars("  a  \n b "), Chars("\n a\nb \n") }

MarkupContents ==
    HeadingContents \cup CodeContents \cup ListContents \cup LinkContents
    \cup SectionContents \cup MarkdownContents \cup DirectiveContents \cup WhitespaceContents

InitMarkup ==
    /\ BatchIdle
    /\ callContent \in MarkupContents
    /\ callName \in ConvNames
    /\ markdown = NoDoc
    /\ numbered = 0
    /\ earlier = NoCall

SpecMarkup == InitMarkup /\ [][NextConv]_vars

(***************************************************************************)
(* The converter on markup: what the documents are claimed to hold         *)
(* (C11 to C20).                                                           *)
(***************************************************************************)
\* The lines of the document after the five lines of the frontmatter.
BodyLines == SubSeq(DocLines, 6, Len(DocLines))
\* A level-1 heading line: "# " followed by text.
IsH1(line) == Len(line) > 2 /\ line[1] = "#" /\ line[2] = " "
H1Lines == {i \in 1..Len(BodyLines) : IsH1(BodyLines[i])}
\* The heading line the converter inserts.
TitleHeading == Chars("# ") \o TitleSplitAt(Stem(callName), {"-"})

\* C11 as claimed: for every input the body starts with a level-1 heading line and
\* holds exactly one level-1 heading line.
C11_OneLeadingHeading ==
    markdown.done => (IsH1(BodyLines[1]) /\ Cardinality(H1Lines) = 1)

\* C12 as claimed: when the input holds exactly one <h1> with text t, wherever it
\* stands, the first line of the body is "# t" and no other line is a level-1 heading.
C12_SingleH1Leads ==
    markdown.done =>
        \A t \in HeadingTexts :
            (\E pre \in {<<>>, El("p", Chars("intro"))}, post \in {<<>>, El("p", Chars("t"))} :
                callContent = pre \o El("h1", t) \o post)
            => (BodyLines[1] = Chars("# ") \o t /\ H1Lines = {1})

\* The lines of run stand in lines, one after the other.
HasRun(lines, run) ==
    \E k \in 1..(Len(lines) - Len(run) + 1) : SubSeq(lines, k, k + Len(run) - 1) = run

\* C13 as claimed: for a <pre><code class="language-X">T</code></pre> block the output
\* holds a fence line with X, the lines of T character for character, and a closing
\* fence line; without a class the opening fence has no tag.
C13_CodeBlockVerbatim ==
    markdown.done =>
        \A lang \in CodeLangs, text \in CodeTexts :
            callContent = CodeBlock(lang, text)
            => HasRun(BodyLines, <<Fence \o lang>> \o SplitLines(text) \o <<Fence>>)

\* The lines that begin with a dash and a space.
DashLines == {i \in 1..Len(BodyLines) : StartsWith(BodyLines[i], Chars("- "))}

\* C14 as claimed: for a flat <ul> with items t1..tn the output holds exactly n lines
\* "- t1" .. "- tn", one after the other, each with the text of its item unchanged.
C14_UlItemLines ==
    markdown.done =>
        \A items \in ItemLists :
            callContent = ListOf("ul", items)
            => /\ HasRun(BodyLines, [i \in 1..Len(items) |-> Chars("- ") \o items[i]])
               /\ Cardinality(DashLines) = Len(items)

\* [t](U)
MdLink(url, text) == Chars("[") \o text \o Chars("](") \o url \o Chars(")")

\* C15: an anchor <a href="U">t</a> becomes [t](U), with the text and the URL of the
\* anchor: a content of text and one anchor, or of two anchors joined by text, becomes
\* the inserted heading, an empty line and the same line with each anchor rewritten.
C15_AnchorBecomesLink ==
    markdown.done =>
        \A a \in Anchors :
            /\ \A pre \in {<<>>, Chars("see ")} :
                  callContent = pre \o Anchor(a[1], a[2])
                  => BodyLines = <<TitleHeading, <<>>, pre \o MdLink(a[1], a[2])>>
            /\ \A b \in Anchors :
                  callContent = Anchor(a[1], a[2]) \o Chars(" and ") \o Anchor(b[1], b[2])
                  => BodyLines = <<TitleHeading, <<>>,
                                   MdLink(a[1], a[2]) \o Chars(" and ") \o MdLink(b[1], b[2])>>

\* Two anchors in one line, the second with > in its URL, both rewritten.
C15_Witness ==
    /\ markdown.done
    /\ callContent = Anchor(Chars("https://x.com"), Chars("click")) \o Chars(" and ")
                     \o Anchor(Chars("a>b"), Chars("t u"))
    /\ BodyLines[3] = Chars("[click](https://x.com) and [t u](a>b)")

\* C16 as claimed: whatever the attributes, the letter case or the termination of a
\* script or style section, nothing of its payload is in the text that leaves the
\* extraction step, nor in the document.
C16_NoPayloadSurvives ==
    markdown.done =>
        (callContent \in SectionContents
            => /\ IndexOf(ExtractContent(callContent), Payload, 1) = 0
               /\ IndexOf(markdown.text, Payload, 1) = 0)

\* A heading line of Markdown: one to six # and a space.
IsHeading(line) ==
    \E k \in 1..6 :
        /\ Len(line) > k
        /\ \A i \in 1..k : line[i] = "#"
        /\ line[k + 1] = " "
\* The lines between the first fence line and the next one.
FencedLines(lines) ==
    LET fences == {i \in 1..Len(lines) : lines[i] = Fence} IN
    IF Cardinality(fences) < 2 THEN <<>>
    ELSE LET open == CHOOSE i \in fences : \A j \in fences : i <= j
             close == CHOOSE i \in fences \ {open} : \A j \in fences \ {open} : i <= j
         IN  SubSeq(lines, open + 1, close - 1)

\* C17 as claimed: for a file that is Markdown already, the heading lines of the
\* output are the heading lines of the input, in order and none added, and the text
\* inside a fenced code block is unchanged.
C17_MarkdownKept ==
    markdown.done =>
        (callContent \in MarkdownContents
            => /\ SelectSeq(BodyLines, IsHeading) = SelectSeq(SplitLines(callContent), IsHeading)
               /\ FencedLines(BodyLines) = FencedLines(SplitLines(callContent)))

\* C18 as claimed: for an <ol> with items t1..tn the output holds the lines "1. t1",
\* "2. t2", .., "n. tn": each number with the text of its own item.
C18_OlItemLines ==
    markdown.done =>
        \A items \in ItemLists :
            callContent = ListOf("ol", items)
            => HasRun(BodyLines,
                      [i \in 1..Len(items) |-> NumberToString(i) \o Chars(". ") \o items[i]])

\* C19 as claimed: component tags, directives and bindings are deleted and leave no
\* residue, the text of the children stays as it was (also when an attribute value
\* holds >), and text outside a tag that looks like a binding is not removed.
C19_DirectivesLeaveNoResidue ==
    markdown.done =>
        (callContent \in DirectiveContents
            => BodyLines = <<TitleHeading, <<>>,
                             IF callContent = Chars("use @click=\"go\" here")
                             THEN callContent ELSE Chars("t")>>)

\* C20 as claimed: parts that blank lines separate in the transformed text are
\* separated by exactly one blank line in the output, and no line of the output
\* begins or ends with white space.
C20_OneBlankLineKept ==
    markdown.done =>
        /\ callContent \in { Chars("<p>a</p><p>b</p>"), Chars("a\n\nb"), Chars("a\n\n\nb"),
                             Chars("a\n\n\n\nb") }
           => BodyLines = <<TitleHeading, <<>>, Chars("a"), <<>>, Chars("b")>>
        /\ callContent \in WhitespaceContents
           => \A i \in 1..Len(BodyLines) : Trim(BodyLines[i]) = BodyLines[i]

(***************************************************************************)
(* The converter stage by stage: convertVueToMarkdown called once on a     *)
(* content that exercises one stage (heading levels, inline elements,      *)
(* bullet glyphs, residual tags, nested lists, tags with a common prefix,  *)
(* emphasis in list items, code blocks next to text, extraction).  Each    *)
(* family pairs a content with the body lines the documentation gives it.  *)
(***************************************************************************)
Case(content, lines) == [content |-> content, lines |-> lines]

\* <hK>text</hK>
HeadingEl(k, text) ==
    Chars("<h") \o NumberToString(k) \o Chars(">") \o text
    \o Chars("</h") \o NumberToString(k) \o Chars(">")
Hashes(k) == [i \in 1..k |-> "#"]
LevelContents ==
    {pre \o HeadingEl(k, Chars("S")) \o post :
        k \in 1..6, pre \in {<<>>, El("p", Chars("x"))}, post \in {<<>>, El("p", Chars("y"))}}

\* The inline elements and their marks.
InlineMarks ==
    { <<"strong", Chars("**")>>, <<"b", Chars("**")>>, <<"em", Chars("*")>>,
      <<"i", Chars("*")>>, <<"code", <<Backtick>> >> }
Marked(mark) == mark \o Chars("t") \o mark
InlineCases ==
    {Case(El(im[1], Chars("t")), <<Marked(im[2])>>) : im \in InlineMarks}
    \cup {Case(Chars("a ") \o El(im[1], Chars("t")) \o Chars(" c"),
               <<Chars("a ") \o Marked(im[2]) \o Chars(" c")>>) : im \in InlineMarks}
    \cup {Case(El("ul", El("li", El(im[1], Chars("t")))),
               <<Chars("- ") \o Marked(im[2])>>) : im \in InlineMarks}

\* Lines that begin with a bullet glyph or a stray prefix.
BulletCases ==
    { Case(<<Bullet>> \o Chars(" x"), <<Chars("- x")>>),
      Case(<<WhiteBullet>> \o Chars(" x"), <<Chars("  - x")>>),
      Case(<<SmallSquare>> \o Chars(" x"), <<Chars("  - x")>>),
      Case(Chars("* x"), <<Chars("- x")>>),
      Case(Chars("- - x"), <<Chars("- x")>>),
      Case(<<Bullet>> \o Chars(" x\n") \o <<WhiteBullet>> \o Chars(" y"),
           <<Chars("- x"), Chars("  - y")>>) }

\* Tags that no stage converts, and text with < and > that is no tag.
TagCases ==
    { Case(Chars("<span>t</span>"), <<Chars("t")>>),
      Case(Chars("<div><span>a</span> b</div>"), <<Chars("a b")>>),
      Case(Chars("a < b and c > d"), <<Chars("a < b and c > d")>>) }

\* A list inside an item of a list.
NestedCases ==
    { Case(Chars("<ul><li>A<ul><li>B</li></ul></li></ul>"), <<Chars("- A"), Chars("- B")>>),
      Case(Chars("<ul><li>A</li><li>B<ul><li>C</li></ul></li></ul>"),
           <<Chars("- A"), Chars("- B"), Chars("- C")>>),
      Case(Chars("<ol><li>A<ul><li>B</li></ul></li></ol>"), <<Chars("1. A"), Chars("- B")>>) }

\* A tag whose name begins with the letters of a converted tag, before such a tag.
LookalikeCases ==
    { Case(Chars("x<br>y <b>z</b>"), <<Chars("xy **z**")>>),
      Case(Chars("<button>k</button> <b>z</b>"), <<Chars("k **z**")>>),
      Case(Chars("<blockquote>q</blockquote><b>z</b>"), <<Chars("> q"), Chars("**z**")>>),
      Case(Chars("x <img src=\"a\"> <i>z</i>"), <<Chars("x  *z*")>>),
      Case(Chars("x <input> <i>z</i>"), <<Chars("x  *z*")>>),
      Case(Chars("x <embed src=\"a\"> <em>z</em>"), <<Chars("x  *z*")>>),
      Case(Chars("<path d=\"x\"/><p>z</p>"), <<Chars("z")>>),
      Case(Chars("<ul><link rel=\"x\"><li>a</li></ul>"), <<Chars("- a")>>) }

\* List items that begin with emphasis or with a dash or a star, with and without
\* indentation in the source.
ListEmphasisCases ==
    { Case(Chars("<ul><li><strong>X</strong> y</li></ul>"), <<Chars("- **X** y")>>),
      Case(Chars("<ul><li><em>X</em> y</li></ul>"), <<Chars("- *X* y")>>),
      Case(Chars("<ul><li>-x</li></ul>"), <<Chars("- -x")>>),
      Case(Chars("<ul><li>*x</li></ul>"), <<Chars("- *x")>>),
      Case(Chars("<ul>\n  <li><strong>X</strong> y</li>\n</ul>"), <<Chars("- **X** y")>>),
      Case(Chars("<ul>\n  <li><em>X</em> y</li>\n</ul>"), <<Chars("- *X* y")>>) }

\* A code block or a styled container with text or a paragraph right before or after it.
FencedBlocks ==
    { CodeBlock(<<>>, Chars("x")), CodeBlock(Chars("go"), Chars("x")),
      Chars("<pre>x</pre>"), Chars("<code class=\"language-js\">x</code>"),
      Chars("<div class=\"code\">x</div>"), Chars("<div class=\"highlight\">x</div>") }
FencePlaceContents ==
    {pre \o block \o post :
        pre \in {<<>>, Chars("text"), El("p", Chars("see"))},
        block \in FencedBlocks,
        post \in {<<>>, Chars("more")}}

\* Sources with the markup <p>v</p> outside their script blocks, style blocks and comments.
Visible == Chars("<p>v</p>")
ExtractionContents ==
    { Chars("<template>") \o Visible \o Chars("</template><!--c--><script>s</script>"),
      Chars("<script>a<!--b</script>") \o Visible \o Chars("<!-- c -->"),
      Chars("<style>a{}</style><!-- c -->") \o Visible,
      Chars("<!-- <script> -->") \o Visible \o Chars("<script>x</script>"),
      Chars("<!-- <style> -->") \o Visible \o Chars("<style>x</style>") }

StageCases ==
    InlineCases \cup BulletCases \cup TagCases \cup NestedCases \cup LookalikeCases
    \cup ListEmphasisCases
StageContents ==
    {c.content : c \in StageCases} \cup LevelContents \cup FencePlaceContents
    \cup ExtractionContents

InitStages ==
    /\ BatchIdle
    /\ callContent \in StageContents
    /\ callName \in ConvNames
    /\ markdown = NoDoc
    /\ numbered = 0
    /\ earlier = NoCall

SpecStages == InitStages /\ [][NextConv]_vars

(***************************************************************************)
(* The converter stage by stage: what the documents are claimed to hold    *)
(* (C21 to C28, C30).                                                      *)
(***************************************************************************)
\* The body of the document for the content at hand is the inserted heading, an empty
\* line and the lines the case gives.
BodyIsAsIn(cases) ==
    \A c \in cases :
        callContent = c.content => BodyLines = <<TitleHeading, <<>> >> \o c.lines

\* C21 as claimed: <hK>S</hK> becomes one line of K # characters, a space and S; in
\* the body that line has an empty line before it, unless it is the first line, and an
\* empty line after it (unless it is the last line).
C21_HeadingLineSetOff ==
    markdown.done =>
        \A k \in 1..6 :
            (\E pre \in {<<>>, El("p", Chars("x"))}, post \in {<<>>, El("p", Chars("y"))} :
                callContent = pre \o HeadingEl(k, Chars("S")) \o post)
            => \E i \in 1..Len(BodyLines) :
                  /\ BodyLines[i] = Hashes(k) \o Chars(" S")
                  /\ i > 1 => BodyLines[i - 1] = <<>>
                  /\ i < Len(BodyLines) => BodyLines[i + 1] = <<>>

\* C22 as claimed: <strong>t</strong> and <b>t</b> become **t**, <em>t</em> and
\* <i>t</i> become *t*, <code>t</code> becomes t in single backquotes, and the marks
\* are in the output as written: alone, inside a line of text, and in a list item.
C22_InlineMarksReachOutput == markdown.done => BodyIsAsIn(InlineCases)

\* C23 as claimed: a line that starts with the bullet glyph, or with a stray star,
\* becomes a "- " line; a line that starts with a nested glyph becomes an indented
\* "  - " line of the output; a doubled dash prefix becomes one "- ".
C23_BulletsNormalized == markdown.done => BodyIsAsIn(BulletCases)

\* C24 as claimed: no tag is left in the body (nothing that starts with <, ends with >
\* and has characters other than > between), the text between removed tags is kept,
\* and text that is no tag, such as a < b and c > d, is not deleted.
C24_TagsStrippedTextKept ==
    markdown.done => (~HasMatch(TagStages[1].re, Body) /\ BodyIsAsIn(TagCases))

\* C25 as claimed: every <li>, at any depth, gives a line of its own with its own
\* prefix and no indentation; the text of a nested item is not merged into the line
\* of its parent.
C25_NestedItemsOwnLines == markdown.done => BodyIsAsIn(NestedCases)

\* C26 as claimed: the paragraph, bold, italic, emphasis, list-item and link stages
\* take only their own tag as opening tag: a tag that begins with the same letters
\* (br, button, blockquote, img, input, embed, path, link) is not rewritten by them,
\* so the element after it is converted on its own.
C26_ExactTagNames == markdown.done => BodyIsAsIn(LookalikeCases)

\* C27 as claimed: a list item that begins with bold or italic text keeps both marks
\* (<li><strong>X</strong> y</li> gives "- **X** y"), and a list item whose text
\* begins with a dash or a star keeps that character.
C27_ListItemMarksIntact == markdown.done => BodyIsAsIn(ListEmphasisCases)

\* The lines of the body that hold a code fence, in order.
HasFence(line) == IndexOf(line, Fence, 1) > 0
FenceLines == SelectSeq(BodyLines, HasFence)

\* C28 as claimed: every fence stands on a line of its own, whatever text or tag
\* stands right before or after the source block: a line that holds a fence begins
\* with it, fences come in pairs, and the second of a pair is the fence alone.
C28_FencesOnOwnLines ==
    markdown.done =>
        (callContent \in FencePlaceContents
            => /\ Len(FenceLines) = 2
               /\ StartsWith(FenceLines[1], Fence)
               /\ FenceLines[2] = Fence)

\* C30 as claimed: extraction removes script sections, style sections, comments and
\* the template tags only: the markup outside them is what is left, also when a
\* comment holds a <script> or <style> opener or a script holds <!--.
C30_ExtractionKeepsVisible ==
    markdown.done =>
        (callContent \in ExtractionContents => ExtractContent(callContent) = Visible)

(***************************************************************************)
(* The batch: what a run leaves alone (C29).                               *)
(***************************************************************************)
\* What a step may do to the files: the sources stay as they are; the callback for a
\* file handles the file at index and moves on, so no source is read twice; an output
\* changes only in the step that logs the conversion of its source, to a name not
\* written before; a step that logs a missing or failed file changes no output.
FilesStep ==
    /\ source' = source
    /\ index' \in {index, index + 1}
    /\ (Len(log') = Len(log) + 1 /\ pc' = "loop")
          => (index' = index + 1 /\ log'[Len(log')].file = vueFiles[index])
    /\ (dest' # dest \/ writes' # writes)
          => /\ log' = Append(log, ConvertedLine(vueFiles[index]))
             /\ ExpectedMd(vueFiles[index]) \notin Range(writes)
             /\ writes' = Append(writes, ExpectedMd(vueFiles[index]))
             /\ \A n \in DOMAIN dest : n # ExpectedMd(vueFiles[index]) => dest'[n] = dest[n]
    /\ (Len(log') = Len(log) + 1 /\ log'[Len(log')].kind \in {"notfound", "error"})
          => dest' = dest

====
